---- MODULE Spec2Model ----
(***************************************************************************)
(* A model of fastapi-filters: the filter/sort specification compiler, the *)
(* type adapter, the alias generator, the CSV list normalizer, the value   *)
(* resolver and the OpenAPI "explode" post-processor.                      *)
(*                                                                         *)
(* Python values are encoded as follows.                                   *)
(*  - identifiers (field names, aliases, attribute names, operator names)  *)
(*    are TLA+ strings, concatenated with \o as f-strings do;              *)
(*  - None is the string None ("None"), which is not an identifier of any  *)
(*    input set;                                                           *)
(*  - raw query-string text is a sequence of symbols, so that split and    *)
(*    join on "," are computed and not assumed;                            *)
(*  - a type is a sequence of constructor names, outermost first:          *)
(*    <<"int">>, <<"list","int">>, <<"CSVList","int">>.                    *)
(***************************************************************************)
EXTENDS Integers, Sequences, FiniteSets, TLC

VARIABLES
    \* ---- csv_list_validator
    csvRaw,        \* the value handed to the validator by the binding layer
    csvListOut,    \* csv_list_validator(csvRaw), once computed
    csvStrOut,     \* csv_list_validator(",".join(csvRaw)), once computed
    \* ---- docs.py
    openapi0,      \* the schema as FastAPI.openapi generated it
    openapi,       \* the app's cached schema object, fixed in place
    patched,       \* the module flag _patched
    fixCalls,      \* how often _fix_openapi_schema ran on the cached schema
    \* ---- default_alias_generator
    agName,        \* the field name the generator is called with
    agAlias,       \* the explicit alias, or None
    agCalls,       \* the calls made so far: <<[op, out], ...>>
    \* ---- adapt_type
    atField,       \* the FilterField (its op_types matter)
    atTp,          \* the declared type
    atOp,          \* the operator of the last call, None before it
    atOut,         \* adapt_type(atField, atTp, atOp)
    atPlainOut,    \* adapt_type of the same field without overrides
    \* ---- create_filters_from_model
    model_fields,  \* the schema's declared fields, in order
    include,       \* the include argument: not given, or a set of names
    exclude,       \* the exclude argument: not given, or a set of names
    overrides,     \* **overrides, in order: <<[name, field], ...>>
    \* ---- create_filters and its resolver
    kwargs,        \* the declared fields, in order: <<[name, field], ...>>
    fstate,        \* "declared", then "compiled" or "failed" (it raised)
    defs,          \* __defs__: attribute name -> <<field name, operator>>
    filter_model,  \* __model__: the dataclass fields, in order
    query,         \* the request's query parameters: external name -> value
    bag,           \* the bound dataclass instance: attribute name -> value
    rstate,        \* "none", "bound" (instance built), "resolved"
    values,        \* what _get_filters returned
    \* ---- create_sorting and its resolver
    sortFields,    \* the declared sortable fields, in order
    sortDefault,   \* the default passed to create_sorting, or None
    sstate,        \* "declared", then "compiled" or "failed" (it raised)
    sortError,     \* the error create_sorting raised, or NoError
    sortDefs,      \* __defs__: token -> <<field, direction, nulls>>
    sortSent,      \* the tokens the caller means, in the caller's order
    sortQuery,     \* the raw values of the request's "sort" parameters
    sphase,        \* "none", "sent", "bound", "rejected", "resolved"
    sortTokens,    \* the validated "sort" value handed to the resolver
    sortValues     \* what the resolver returned

csvVars  == <<csvRaw, csvListOut, csvStrOut>>
docsVars == <<openapi0, openapi, patched, fixCalls>>

aliasVars == <<agName, agAlias, agCalls>>
adaptVars == <<atField, atTp, atOp, atOut, atPlainOut>>

schemaVars  == <<model_fields, include, exclude, overrides>>
compileVars == <<kwargs, fstate, defs, filter_model>>
requestVars == <<query, bag, rstate, values>>
filterVars == <<schemaVars, compileVars, requestVars>>

sortDeclVars == <<sortFields, sortDefault, sstate, sortError, sortDefs>>
sortReqVars  == <<sortSent, sortQuery, sphase, sortTokens, sortValues>>
sortVars     == <<sortDeclVars, sortReqVars>>

vars == <<csvVars, docsVars, aliasVars, adaptVars, filterVars, sortVars>>

notCsv    == <<docsVars, aliasVars, adaptVars, filterVars, sortVars>>
notDocs   == <<csvVars, aliasVars, adaptVars, filterVars, sortVars>>
notAlias  == <<csvVars, docsVars, adaptVars, filterVars, sortVars>>
notAdapt  == <<csvVars, docsVars, aliasVars, filterVars, sortVars>>
notFilter == <<csvVars, docsVars, aliasVars, adaptVars, sortVars>>
notSort   == <<csvVars, docsVars, aliasVars, adaptVars, filterVars>>

None == "None"

\* Python values seen by the validator
PyStr(s)    == [py |-> "str", s |-> s]
PyInt(n)    == [py |-> "int", n |-> n]
PyList(xs)  == [py |-> "list", items |-> xs]
PyNone      == [py |-> "None"]
\* an output slot the validator has not filled yet
Unset       == [py |-> "unset"]

\* a dict is a function on its keys
EmptyDict     == [x \in {} |-> None]

(***************************************************************************)
(* The parts of the state a specification does not use stay as they are    *)
(* here.                                                                   *)
(***************************************************************************)
IdleCsv ==
    /\ csvRaw = PyNone
    /\ csvListOut = Unset
    /\ csvStrOut = Unset

IdleAlias ==
    /\ agName = None
    /\ agAlias = None
    /\ agCalls = <<>>

IdleAdapt ==
    /\ atField = [op_types |-> EmptyDict]
    /\ atTp = <<>>
    /\ atOp = None
    /\ atOut = <<>>
    /\ atPlainOut = <<>>

NotGiven == [given |-> FALSE, names |-> {}]

IdleSchema ==
    /\ model_fields = <<>>
    /\ include = NotGiven
    /\ exclude = NotGiven
    /\ overrides = <<>>

IdleFilters ==
    /\ IdleSchema
    /\ kwargs = <<>>
    /\ fstate = "declared"
    /\ defs = EmptyDict
    /\ filter_model = <<>>
    /\ query = EmptyDict
    /\ bag = EmptyDict
    /\ rstate = "none"
    /\ values = EmptyDict

IdleDocs ==
    /\ openapi0 = EmptyDict
    /\ openapi = EmptyDict
    /\ patched = FALSE
    /\ fixCalls = 0

NoError == [type |-> "none"]

IdleSort ==
    /\ sortFields = <<>>
    /\ sortDefault = None
    /\ sstate = "declared"
    /\ sortError = NoError
    /\ sortDefs = EmptyDict
    /\ sortSent = <<>>
    /\ sortQuery = <<>>
    /\ sphase = "none"
    /\ sortTokens = Unset
    /\ sortValues = <<>>

OnlyCsv    == IdleDocs /\ IdleAlias /\ IdleAdapt /\ IdleFilters /\ IdleSort
OnlyDocs   == IdleCsv /\ IdleAlias /\ IdleAdapt /\ IdleFilters /\ IdleSort
OnlyAlias  == IdleCsv /\ IdleDocs /\ IdleAdapt /\ IdleFilters /\ IdleSort
OnlyAdapt  == IdleCsv /\ IdleDocs /\ IdleAlias /\ IdleFilters /\ IdleSort
OnlyFilter == IdleCsv /\ IdleDocs /\ IdleAlias /\ IdleAdapt /\ IdleSort
OnlySort   == IdleCsv /\ IdleDocs /\ IdleAlias /\ IdleAdapt /\ IdleFilters

BoundedSeq(S, n) == UNION {[1..k -> S] : k \in 0..n}

Range(f) == {f[i] : i \in DOMAIN f}

(***************************************************************************)
(* Text: str.split(",") and ",".join(...)                                  *)
(***************************************************************************)
Comma == ","

\* The positions of s that hold a comma.
Commas(s) == {i \in 1..Len(s) : s[i] = Comma}

Min(S) == CHOOSE m \in S : \A k \in S : m <= k

\* s.split(","): always at least one segment; empty segments are kept.
RECURSIVE Split(_)
Split(s) ==
    IF Commas(s) = {}
    THEN <<s>>
    ELSE LET i == Min(Commas(s))
         IN  <<SubSeq(s, 1, i - 1)>> \o Split(SubSeq(s, i + 1, Len(s)))

\* ",".join(xs) for a sequence xs of texts.
RECURSIVE Join(_)
Join(xs) ==
    IF xs = <<>> THEN <<>>
    ELSE IF Len(xs) = 1 THEN xs[1]
    ELSE xs[1] \o <<Comma>> \o Join(Tail(xs))

(***************************************************************************)
(* schemas.py: csv_list_validator                                          *)
(***************************************************************************)
\* str(item) for the items the model feeds: a str is itself, a one-digit
\* int is its digit.
Digits == <<"0", "1", "2", "3", "4", "5", "6", "7", "8", "9">>
Str(item) == IF item.py = "str" THEN item.s ELSE <<Digits[item.n + 1]>>

MapSeq(Op(_), xs) == [i \in 1..Len(xs) |-> Op(xs[i])]

Unwrap(item) == item.s

\* A faulty variant of the validator: a list is returned as it came.
csv_list_validator_noflatten(v) ==
    CASE v.py = "str" -> PyList(MapSeq(PyStr, Split(v.s)))
      [] OTHER -> v

csv_list_validator(v) ==
    CASE v.py = "str" -> PyList(MapSeq(PyStr, Split(v.s)))
      [] v.py = "list" /\ \A i \in 1..Len(v.items) : v.items[i].py = "str" ->
            PyList(MapSeq(PyStr, Split(Join(MapSeq(Unwrap, v.items)))))
      [] v.py = "list" ->
            PyList(MapSeq(PyStr, Split(Join(MapSeq(Str, v.items)))))
      [] OTHER -> v

(***************************************************************************)
(* The validator's inputs                                                  *)
(***************************************************************************)
MaxStrLen  == 2
MaxListLen == 2

CsvAlphabet == {"1", Comma}
CsvTexts    == BoundedSeq(CsvAlphabet, MaxStrLen)
CsvStrLists == {PyList(MapSeq(PyStr, xs)) : xs \in BoundedSeq(CsvTexts, MaxListLen)}
\* lists holding a non-string scalar, and values that are no list encoding
CsvIntLists == {PyList(xs) : xs \in BoundedSeq({PyInt(1), PyInt(2), PyStr(<<"1", Comma>>)}, MaxListLen)}
CsvOthers   == {PyInt(7), PyNone}
CsvInputs   == CsvStrLists \cup CsvIntLists \cup CsvOthers \cup {PyStr(s) : s \in CsvTexts}

IsStrList(v) == v.py = "list" /\ \A i \in 1..Len(v.items) : v.items[i].py = "str"

InitCsv ==
    /\ csvRaw \in CsvInputs
    /\ csvListOut = Unset
    /\ csvStrOut = Unset
    /\ OnlyCsv

\* The binding layer hands the collected value to the validator.
ValidateRaw ==
    /\ csvListOut = Unset
    /\ csvListOut' = csv_list_validator(csvRaw)
    /\ UNCHANGED <<csvRaw, csvStrOut, notCsv>>

\* The same values sent as one comma-joined string.
ValidateJoined ==
    /\ csvStrOut = Unset
    /\ IsStrList(csvRaw)
    /\ csvStrOut' = csv_list_validator(PyStr(Join(MapSeq(Unwrap, csvRaw.items))))
    /\ UNCHANGED <<csvRaw, csvListOut, notCsv>>

NextCsv == ValidateRaw \/ ValidateJoined

SpecCsv == InitCsv /\ [][NextCsv]_vars

\* C4: for a list of strings, the validator's result on the list equals its
\* result on the comma-joined string of the same values.
C4_RepeatedEqualsJoined ==
    (IsStrList(csvRaw) /\ csvListOut # Unset /\ csvStrOut # Unset)
        => csvListOut = csvStrOut

\* Both encodings were validated for a list one of whose elements holds a
\* comma and one of whose elements is empty.
C4_Witness ==
    /\ IsStrList(csvRaw) /\ csvListOut # Unset /\ csvStrOut # Unset
    /\ Len(csvRaw.items) = 2
    /\ \E i \in 1..2 : Commas(csvRaw.items[i].s) # {}
    /\ \E i \in 1..2 : csvRaw.items[i].s = <<>>
    /\ Len(csvListOut.items) = 3

(***************************************************************************)
(* docs.py                                                                 *)
(***************************************************************************)
Has(d, k)     == k \in DOMAIN d
Without(d, k) == [x \in DOMAIN d \ {k} |-> d[x]]
With(d, k, v) == (k :> v) @@ d

\* A faulty variant of the fix of one parameter: the marker is copied, not
\* popped.
FixParameter_copy(parameter) ==
    IF Has(parameter, "schema") /\ Has(parameter["schema"], "explode")
    THEN With(parameter, "explode", parameter["schema"]["explode"])
    ELSE parameter

\* if "explode" in parameter.get("schema", {}):
\*     parameter["explode"] = parameter["schema"].pop("explode")
FixParameter(parameter) ==
    IF Has(parameter, "schema") /\ Has(parameter["schema"], "explode")
    THEN With(With(parameter, "schema", Without(parameter["schema"], "explode")),
              "explode", parameter["schema"]["explode"])
    ELSE parameter

\* for parameter in endpoint.get("parameters", ()): ...
FixEndpoint(endpoint) ==
    IF Has(endpoint, "parameters")
    THEN With(endpoint, "parameters", MapSeq(FixParameter, endpoint["parameters"]))
    ELSE endpoint

\* for endpoint in endpoints.values(): ...
FixEndpoints(endpoints) == [m \in DOMAIN endpoints |-> FixEndpoint(endpoints[m])]

\* _fix_openapi_schema: the schema after the in-place fix.
_fix_openapi_schema(schema) ==
    IF Has(schema, "paths")
    THEN With(schema, "paths",
              [p \in DOMAIN schema["paths"] |-> FixEndpoints(schema["paths"][p])])
    ELSE schema

MaxParams   == 2
MaxFixCalls == 2

DocSchemas == { [type |-> "array"],
                [type |-> "array", explode |-> FALSE],
                [type |-> "array", explode |-> TRUE] }
\* a parameter without schema, with each schema, and one that already has
\* an "explode" of its own beside the one in its schema
DocParameters ==
    LET base == [name |-> "q", in |-> "query"]
    IN  {base} \cup {With(base, "schema", sc) : sc \in DocSchemas}
               \cup {[name |-> "q", in |-> "query", explode |-> TRUE,
                      schema |-> [type |-> "array", explode |-> FALSE]]}
DocEndpoints ==
    {[summary |-> "Route"]}
        \cup {[summary |-> "Route", parameters |-> ps] :
                ps \in BoundedSeq(DocParameters, MaxParams)}
DocMethods == {"get", "post"}
DocPathItems ==
    UNION {[ms -> DocEndpoints] : ms \in (SUBSET DocMethods) \ {{}}}
DocOpenapis ==
    {[openapi |-> "3.1.0"]}
        \cup {[openapi |-> "3.1.0", paths |-> ("/" :> item)] : item \in DocPathItems}

InitDocs ==
    /\ openapi0 \in DocOpenapis
    /\ openapi = openapi0
    /\ patched = FALSE
    /\ fixCalls = 0
    /\ OnlyDocs

\* _auto_fix_docs(): patches FastAPI.openapi once.
_auto_fix_docs ==
    /\ patched' = TRUE
    /\ UNCHANGED <<openapi0, openapi, fixCalls, notDocs>>

\* patched_openapi(self): the cached schema is fetched and fixed in place.
patched_openapi ==
    /\ patched
    /\ fixCalls < MaxFixCalls
    /\ openapi' = _fix_openapi_schema(openapi)
    /\ fixCalls' = fixCalls + 1
    /\ UNCHANGED <<openapi0, patched, notDocs>>

\* fix_docs(app)'s startup handler: app.openapi(), then the fix.
_fix_docs ==
    /\ fixCalls < MaxFixCalls
    /\ openapi' = _fix_openapi_schema(IF patched THEN _fix_openapi_schema(openapi) ELSE openapi)
    /\ fixCalls' = fixCalls + 1
    /\ UNCHANGED <<openapi0, patched, notDocs>>

NextDocs == _auto_fix_docs \/ patched_openapi \/ _fix_docs

SpecDocs == InitDocs /\ [][NextDocs]_vars

\* What the fix must make of one parameter p0 of the generated schema.
ExplodeMoved(p0, p) ==
    IF Has(p0, "schema") /\ Has(p0["schema"], "explode")
    THEN /\ Has(p, "explode") /\ p["explode"] = p0["schema"]["explode"]
         /\ Has(p, "schema") /\ ~Has(p["schema"], "explode")
         /\ DOMAIN p["schema"] = DOMAIN p0["schema"] \ {"explode"}
         /\ \A k \in DOMAIN p["schema"] : p["schema"][k] = p0["schema"][k]
         /\ DOMAIN p = DOMAIN p0 \cup {"explode"}
         /\ \A k \in DOMAIN p0 \ {"schema", "explode"} : p[k] = p0[k]
    ELSE p = p0

EndpointFixed(e0, e) ==
    /\ DOMAIN e = DOMAIN e0
    /\ \A k \in DOMAIN e0 \ {"parameters"} : e[k] = e0[k]
    /\ Has(e0, "parameters") =>
          /\ Len(e["parameters"]) = Len(e0["parameters"])
          /\ \A i \in 1..Len(e0["parameters"]) :
                ExplodeMoved(e0["parameters"][i], e["parameters"][i])

\* C9: once the fix has run (once or twice), every parameter whose inner
\* schema carried "explode" has it on the parameter itself with the same
\* value and no longer in the inner schema, and nothing else has changed.
C9_ExplodeRelocated ==
    fixCalls >= 1 =>
        /\ DOMAIN openapi = DOMAIN openapi0
        /\ \A k \in DOMAIN openapi0 \ {"paths"} : openapi[k] = openapi0[k]
        /\ Has(openapi0, "paths") =>
              /\ DOMAIN openapi["paths"] = DOMAIN openapi0["paths"]
              /\ \A p \in DOMAIN openapi0["paths"] :
                    /\ DOMAIN openapi["paths"][p] = DOMAIN openapi0["paths"][p]
                    /\ \A m \in DOMAIN openapi0["paths"][p] :
                          EndpointFixed(openapi0["paths"][p][m], openapi["paths"][p][m])

\* The fix ran twice on a schema that has a parameter with the marker in its
\* inner schema and a parameter without it.
C9_Witness ==
    /\ fixCalls = 2
    /\ Has(openapi0, "paths")
    /\ \E m \in DOMAIN openapi0["paths"]["/"] :
          LET e0 == openapi0["paths"]["/"][m]
          IN  /\ Has(e0, "parameters") /\ Len(e0["parameters"]) = 2
              /\ Has(e0["parameters"][1], "schema")
              /\ Has(e0["parameters"][1]["schema"], "explode")
              /\ ~Has(e0["parameters"][1], "explode")
              /\ Has(e0["parameters"][2], "schema")
              /\ ~Has(e0["parameters"][2]["schema"], "explode")
              /\ openapi["paths"]["/"][m]["parameters"][1]["explode"] = FALSE

(***************************************************************************)
(* filters.py: the operator registry and the alias generator               *)
(***************************************************************************)
\* Django-style lookup expressions mapping
LOOKUP_EXPRESSIONS ==
    "eq" :> "" @@
    "ne" :> "__ne" @@
    "gt" :> "__gt" @@
    "ge" :> "__gte" @@
    "lt" :> "__lt" @@
    "le" :> "__lte" @@
    "like" :> "__contains" @@
    "not_like" :> "__not_like" @@
    "ilike" :> "__icontains" @@
    "not_ilike" :> "__not_ilike" @@
    "in_" :> "__in" @@
    "not_in" :> "__not_in" @@
    "is_null" :> "__isnull" @@
    "overlap" :> "__overlap" @@
    "not_overlap" :> "__not_overlap" @@
    "contains" :> "__contains" @@
    "not_contains" :> "__not_contains"

\* The members of the FilterOperator enum, by name.
FilterOperator == DOMAIN LOOKUP_EXPRESSIONS

\* op.name.rstrip('_'): in_ is the one member whose name ends in "_".
RStripName(op) == IF op = "in_" THEN "in" ELSE op

\* LOOKUP_EXPRESSIONS.get(op, f"__{op.name.rstrip('_')}")
LookupExpr(op) ==
    IF op \in DOMAIN LOOKUP_EXPRESSIONS
    THEN LOOKUP_EXPRESSIONS[op]
    ELSE "__" \o RStripName(op)

\* Python truthiness of an optional string.
Truthy(x) == x # None /\ x # ""

default_alias_generator(name, op, alias) ==
    LET base        == IF Truthy(alias) THEN alias ELSE name
        lookup_expr == LookupExpr(op)
    IN  IF ~Truthy(lookup_expr) THEN base ELSE base \o lookup_expr

(***************************************************************************)
(* filters.py: the type adapter                                            *)
(***************************************************************************)
TInt  == <<"int">>
TStr  == <<"str">>
TBool == <<"bool">>
TList(t) == <<"list">> \o t
\* CSVList[T] = Annotated[list[T], BeforeValidator(csv_list_validator), ...]
CSVList(t) == <<"CSVList">> \o t

\* utils.is_seq and utils.unwrap_seq_type
is_seq(tp)          == tp # <<>> /\ Head(tp) = "list"
unwrap_seq_type(tp) == Tail(tp)

\* A faulty variant of the adapter: the membership rule is tried before
\* the sequence rule.
adapt_type_membership_first(field, tp, op) ==
    IF field.op_types # EmptyDict /\ op \in DOMAIN field.op_types
    THEN field.op_types[op]
    ELSE IF op \in {"in_", "not_in"} THEN CSVList(tp)
    ELSE IF is_seq(tp) THEN CSVList(unwrap_seq_type(tp))
    ELSE IF op \in {"like", "ilike", "not_like", "not_ilike"} THEN TStr
    ELSE IF op = "is_null" THEN TBool
    ELSE tp

adapt_type(field, tp, op) ==
    IF field.op_types # EmptyDict /\ op \in DOMAIN field.op_types
    THEN field.op_types[op]
    ELSE IF is_seq(tp) THEN CSVList(unwrap_seq_type(tp))
    ELSE IF op \in {"like", "ilike", "not_like", "not_ilike"} THEN TStr
    ELSE IF op = "is_null" THEN TBool
    ELSE IF op \in {"in_", "not_in"} THEN CSVList(tp)
    ELSE tp

(***************************************************************************)
(* The alias generator, called on its own                                  *)
(***************************************************************************)
MaxAliasCalls == 2

AliasNames   == {"age", "name"}
AliasAliases == {None, "years"}

InitAlias ==
    /\ agName \in AliasNames
    /\ agAlias \in AliasAliases
    /\ agCalls = <<>>
    /\ OnlyAlias

GenerateAlias ==
    /\ Len(agCalls) < MaxAliasCalls
    /\ \E op \in FilterOperator :
          agCalls' = Append(agCalls,
                            [op |-> op, out |-> default_alias_generator(agName, op, agAlias)])
    /\ UNCHANGED <<agName, agAlias, notAlias>>

NextAlias == GenerateAlias

SpecAlias == InitAlias /\ [][NextAlias]_vars

AliasBase == IF agAlias # None THEN agAlias ELSE agName

\* C2: the equality operator yields the base name unchanged, and any two
\* distinct operators yield distinct names for the same base (the suffix is
\* injective in the operator).
C2_SuffixInjective ==
    /\ \A i \in 1..Len(agCalls) :
          agCalls[i].op = "eq" => agCalls[i].out = AliasBase
    /\ \A i, j \in 1..Len(agCalls) :
          agCalls[i].op # agCalls[j].op => agCalls[i].out # agCalls[j].out

(***************************************************************************)
(* The type adapter, called on its own                                     *)
(***************************************************************************)
MaxOverrides == 1

AdaptTypes     == {TInt, TStr, TList(TInt), TList(TStr)}
OverrideTypes  == {TStr, TList(TInt), CSVList(TStr)}
AdaptOverrides ==
    UNION {[ops -> OverrideTypes] :
             ops \in {o \in SUBSET FilterOperator : Cardinality(o) <= MaxOverrides}}

InitAdapt ==
    /\ atField \in {[op_types |-> ov] : ov \in AdaptOverrides}
    /\ atTp \in AdaptTypes
    /\ atOp = None
    /\ atOut = <<>>
    /\ atPlainOut = <<>>
    /\ OnlyAdapt

\* One parameter's type is adapted, for the field as declared and for the
\* same field stripped of its overrides.
AdaptType ==
    /\ \E op \in FilterOperator :
          /\ atOp' = op
          /\ atOut' = adapt_type(atField, atTp, op)
          /\ atPlainOut' = adapt_type([op_types |-> EmptyDict], atTp, op)
    /\ UNCHANGED <<atField, atTp, notAdapt>>

NextAdapt == AdaptType

SpecAdapt == InitAdapt /\ [][NextAdapt]_vars

Overridden == atOp \in DOMAIN atField.op_types
SeqDeclared == Head(atTp) = "list"

\* C3: the adapted type is the first matching rule of: the override for
\* exactly this operator; the list encoding of the element type of a
\* sequence type; str for the pattern operators; bool for is_null; the list
\* encoding of the declared type for in/not_in; the declared type.  A
\* sequence type is never wrapped twice, and an override for another
\* operator changes nothing.
C3_AdaptRuleOrder ==
    atOp # None =>
        /\ Overridden => atOut = atField.op_types[atOp]
        /\ (~Overridden /\ SeqDeclared) => atOut = <<"CSVList">> \o Tail(atTp)
        /\ (~Overridden /\ ~SeqDeclared
               /\ atOp \in {"like", "not_like", "ilike", "not_ilike"})
             => atOut = <<"str">>
        /\ (~Overridden /\ ~SeqDeclared /\ atOp = "is_null") => atOut = <<"bool">>
        /\ (~Overridden /\ ~SeqDeclared /\ atOp \in {"in_", "not_in"})
             => atOut = <<"CSVList">> \o atTp
        /\ (~Overridden /\ ~SeqDeclared
               /\ atOp \notin {"like", "not_like", "ilike", "not_ilike",
                               "is_null", "in_", "not_in"})
             => atOut = atTp
        /\ ~Overridden =>
              /\ atOut = atPlainOut
              /\ ~(Len(atOut) >= 2 /\ atOut[1] = "CSVList" /\ atOut[2] = "list")

\* not_in was adapted for a sequence-typed field that carries an override
\* for another operator.
C3_Witness ==
    /\ atOp = "not_in"
    /\ atTp = <<"list", "int">>
    /\ DOMAIN atField.op_types = {"eq"}
    /\ atOut = <<"CSVList", "int">>

(***************************************************************************)
(* filters.py: the specification compiler                                  *)
(***************************************************************************)
\* lookup_expr.startswith("__"): every non-empty entry of the table and
\* every fallback expression begins with "__".
StartsWithDunder(lookup_expr) ==
    \/ \E o \in DOMAIN LOOKUP_EXPRESSIONS :
          LOOKUP_EXPRESSIONS[o] # "" /\ lookup_expr = LOOKUP_EXPRESSIONS[o]
    \/ \E o \in FilterOperator : lookup_expr = "__" \o RStripName(o)

\* _get_field_name: the dataclass attribute name of an operator's parameter
_get_field_name(name, op) ==
    LET lookup_expr == LookupExpr(op)
    IN  IF ~Truthy(lookup_expr) THEN name \o "__" \o op
        ELSE IF StartsWithDunder(lookup_expr) THEN name \o lookup_expr
        ELSE name \o "__" \o lookup_expr

\* field_filter_to_raw_fields, with the configured (default) alias generator
field_filter_to_raw_fields(name, field) ==
    <<[fname |-> name, tp |-> field.type, op |-> field.default_op,
       alias |-> field.alias]>>
    \o [i \in 1..Len(field.operators) |->
          [fname |-> _get_field_name(name, field.operators[i]),
           tp    |-> field.type,
           op    |-> field.operators[i],
           alias |-> default_alias_generator(name, field.operators[i], field.alias)]]

\* _is_csv_list_type: Annotated[list[...], ...] or list[...]
_is_csv_list_type(tp) == tp # <<>> /\ Head(tp) \in {"CSVList", "list"}

\* _create_query_param: the Query(...) of one parameter
_create_query_param(alias, tp, op, field, original_tp) ==
    LET needs_csv == \/ op \in {"in_", "not_in"}
                     \/ is_seq(original_tp)
                     \/ _is_csv_list_type(tp)
    IN  IF needs_csv
        THEN IF Truthy(alias) THEN [alias |-> alias, explode |-> "False"]
                              ELSE [alias |-> None, explode |-> "False"]
        ELSE IF Truthy(alias) THEN [alias |-> alias, explode |-> None]
                              ELSE [alias |-> None, explode |-> None]

\* fields_defs: one entry per (field, raw field), in declaration order
RECURSIVE FieldsDefs(_)
FieldsDefs(kw) ==
    IF kw = <<>> THEN <<>>
    ELSE LET name  == Head(kw).name
             field == Head(kw).field
             raw   == field_filter_to_raw_fields(name, field)
         IN  [i \in 1..Len(raw) |->
                [name |-> name, fname |-> raw[i].fname, field |-> field,
                 tp |-> raw[i].tp, alias |-> raw[i].alias, op |-> raw[i].op]]
             \o FieldsDefs(Tail(kw))

\* defs = {fname: (name, op) for ...}: a later entry replaces an earlier one
Defs(fields_defs) ==
    [f \in {fields_defs[i].fname : i \in 1..Len(fields_defs)} |->
        LET last == CHOOSE i \in 1..Len(fields_defs) :
                       /\ fields_defs[i].fname = f
                       /\ \A j \in 1..Len(fields_defs) :
                             fields_defs[j].fname = f => j <= i
        IN  <<fields_defs[last].name, fields_defs[last].op>>]

\* make_dataclass raises TypeError when a field name occurs twice
Duplicated(fields_defs) ==
    \E i, j \in 1..Len(fields_defs) :
        i # j /\ fields_defs[i].fname = fields_defs[j].fname

\* the fields handed to make_dataclass("Filters", [...])
FilterModel(fields_defs) ==
    [i \in 1..Len(fields_defs) |->
        LET d == fields_defs[i]
        IN  [fname |-> d.fname,
             type  |-> adapt_type(d.field, d.tp, d.op),
             param |-> _create_query_param(d.alias, adapt_type(d.field, d.tp, d.op),
                                          d.op, d.field, d.tp)]]

\* The name the binding layer reads a parameter from: its alias, or the
\* attribute name when there is none.
ExternalName(p) == IF Truthy(p.param.alias) THEN p.param.alias ELSE p.fname

\* create_filters(**kwargs)
create_filters ==
    /\ fstate = "declared"
    /\ LET fields_defs == FieldsDefs(kwargs)
       IN  IF Duplicated(fields_defs)
           THEN /\ fstate' = "failed"
                /\ UNCHANGED <<defs, filter_model>>
           ELSE /\ fstate' = "compiled"
                /\ defs' = Defs(fields_defs)
                /\ filter_model' = FilterModel(fields_defs)
    /\ UNCHANGED <<kwargs, schemaVars, requestVars, notFilter>>

(***************************************************************************)
(* filters.py: the value resolver                                          *)
(***************************************************************************)
\* A faulty variant: a value is kept when it is truthy.
Supplied_truthy(value) == value \notin {None, "False", "0", ""}

\* if value is not None
Supplied(value) == value # None

\* the loop of _get_filters over asdict(f).items()
RECURSIVE _get_filters(_, _, _, _)
_get_filters(keys, f, index, acc) ==
    IF keys = <<>> THEN acc
    ELSE LET key   == Head(keys)
             value == f[key]
         IN  IF Supplied(value)
             THEN LET name  == index[key][1]
                      op    == index[key][2]
                      inner == IF name \in DOMAIN acc THEN acc[name] ELSE EmptyDict
                  IN  _get_filters(Tail(keys), f, index,
                                 With(acc, name, With(inner, op, value)))
             ELSE _get_filters(Tail(keys), f, index, acc)

ModelKeys == [i \in 1..Len(filter_model) |-> filter_model[i].fname]

ExternalNames == {ExternalName(filter_model[i]) : i \in 1..Len(filter_model)}

\* The binding layer builds the dataclass instance from the query string:
\* every parameter reads the key of its external name and is None when the
\* key is missing.
Bind(q) ==
    /\ fstate = "compiled"
    /\ rstate = "none"
    /\ query' = q
    /\ bag' = [k \in Range(ModelKeys) |->
                 LET p == filter_model[CHOOSE i \in 1..Len(filter_model) :
                                          filter_model[i].fname = k]
                 IN  IF ExternalName(p) \in DOMAIN q THEN q[ExternalName(p)] ELSE None]
    /\ rstate' = "bound"
    /\ values' = EmptyDict
    /\ UNCHANGED <<schemaVars, compileVars, notFilter>>

\* _get_filters(f)
Resolve ==
    /\ rstate = "bound"
    /\ values' = _get_filters(ModelKeys, bag, defs, EmptyDict)
    /\ rstate' = "resolved"
    /\ UNCHANGED <<schemaVars, compileVars, query, bag, notFilter>>

\* The request ends: its instance and its values are dropped.
Respond ==
    /\ rstate = "resolved"
    /\ rstate' = "none"
    /\ query' = EmptyDict
    /\ bag' = EmptyDict
    /\ values' = EmptyDict
    /\ UNCHANGED <<schemaVars, compileVars, notFilter>>

(***************************************************************************)
(* The declarations and requests explored                                  *)
(***************************************************************************)
MaxFields   == 2
MaxOps      == 2
MaxSupplied == 2

FieldNames == {"a", "b"}

FilterFields(types, defaultOps, ops, aliases, opTypes) ==
    [type : types, default_op : defaultOps, operators : BoundedSeq(ops, MaxOps),
     alias : aliases, op_types : opTypes]

\* keyword arguments: distinct names, in the order given
KwargNames ==
    {ns \in BoundedSeq(FieldNames, MaxFields) :
        \A i, j \in 1..Len(ns) : i # j => ns[i] # ns[j]}

Kwargs(ns, fs) == [i \in 1..Len(ns) |-> [name |-> ns[i], field |-> fs[i]]]

CompileFields ==
    FilterFields({TInt, TList(TInt)}, {"eq", "gt"},
                 {"eq", "gt", "like", "contains"}, {None, "b"}, {EmptyDict})

RequestFields ==
    FilterFields({TInt}, {"eq", "gt"}, {"eq", "gt"}, {None, "b"}, {EmptyDict})

QueryValues == {"False", "0", "", "18"}

Queries ==
    UNION {[ks -> QueryValues] :
             ks \in {k \in SUBSET ExternalNames : Cardinality(k) <= MaxSupplied}}

InitCompile ==
    /\ \E ns \in KwargNames : \E fs \in [1..Len(ns) -> CompileFields] :
          kwargs = Kwargs(ns, fs)
    /\ fstate = "declared"
    /\ defs = EmptyDict
    /\ filter_model = <<>>
    /\ query = EmptyDict
    /\ bag = EmptyDict
    /\ rstate = "none"
    /\ values = EmptyDict
    /\ IdleSchema
    /\ OnlyFilter

NextCompile == create_filters

SpecCompile == InitCompile /\ [][NextCompile]_vars

InitRequest ==
    /\ \E ns \in KwargNames : \E fs \in [1..Len(ns) -> RequestFields] :
          kwargs = Kwargs(ns, fs)
    /\ fstate = "declared"
    /\ defs = EmptyDict
    /\ filter_model = <<>>
    /\ query = EmptyDict
    /\ bag = EmptyDict
    /\ rstate = "none"
    /\ values = EmptyDict
    /\ IdleSchema
    /\ OnlyFilter

NextRequest ==
    \/ create_filters
    \/ \E q \in Queries : Bind(q)
    \/ Resolve
    \/ Respond

SpecRequest == InitRequest /\ [][NextRequest]_vars

\* The external name of a raw field of the declaration.
RawExternalName(d) == IF Truthy(d.alias) THEN d.alias ELSE d.fname

\* The generated parameters owned by field name n.
ParamsOf(n) == {i \in 1..Len(filter_model) : defs[filter_model[i].fname][1] = n}

\* C1: a compiled declaration has, for every field, one parameter more than
\* the field has additional operators, and the external names of all its
\* parameters are pairwise distinct.
C1_CountAndDistinctNames ==
    fstate = "compiled" =>
        /\ \A k \in 1..Len(kwargs) :
              Cardinality(ParamsOf(kwargs[k].name)) = Len(kwargs[k].field.operators) + 1
        /\ \A i, j \in 1..Len(filter_model) :
              i # j => ExternalName(filter_model[i]) # ExternalName(filter_model[j])

\* C7: when two generated parameters of a declaration resolve to the same
\* external name, create_filters fails and leaves no compiled parameter bag.
C7_CollisionFailsConstruction ==
    LET fields_defs == FieldsDefs(kwargs)
    IN  (/\ fstate # "declared"
         /\ \E i, j \in 1..Len(fields_defs) :
               /\ i # j
               /\ RawExternalName(fields_defs[i]) = RawExternalName(fields_defs[j]))
        => (fstate = "failed" /\ filter_model = <<>> /\ defs = EmptyDict)

\* The owner (field, operator) the definition index records for parameter i.
Owner(i) == defs[filter_model[i].fname]

SuppliedParams == {i \in 1..Len(filter_model) : bag[filter_model[i].fname] # None}

HasEntry(o) == o[1] \in DOMAIN values /\ o[2] \in DOMAIN values[o[1]]

\* C5 as stated: the resolved mapping holds values[field][op] = v for every
\* generated parameter whose attribute v is not None, and holds no other
\* entry and no field without an entry.
C5_EverySuppliedRecorded ==
    rstate = "resolved" =>
        /\ \A i \in SuppliedParams :
              HasEntry(Owner(i)) /\ values[Owner(i)[1]][Owner(i)[2]] = bag[filter_model[i].fname]
        /\ \A n \in DOMAIN values :
              /\ DOMAIN values[n] # {}
              /\ \A op \in DOMAIN values[n] :
                    \E i \in SuppliedParams :
                        Owner(i) = <<n, op>> /\ values[n][op] = bag[filter_model[i].fname]

\* C5 as amended: the entries are exactly the owners of the supplied
\* parameters, each holding the value of the last supplied parameter with
\* that owner, in declaration order; falsy values are kept as they are.
C5_LastSuppliedRecorded ==
    rstate = "resolved" =>
        /\ \A i \in SuppliedParams :
              /\ HasEntry(Owner(i))
              /\ (\A j \in SuppliedParams : Owner(j) = Owner(i) => j <= i)
                    => values[Owner(i)[1]][Owner(i)[2]] = bag[filter_model[i].fname]
        /\ \A n \in DOMAIN values :
              /\ DOMAIN values[n] # {}
              /\ \A op \in DOMAIN values[n] :
                    \E i \in SuppliedParams : Owner(i) = <<n, op>>

\* A request supplied 0 for one field's default parameter and 18 for the
\* same operator's own parameter, and nothing for the other field: the
\* falsy value of the later parameter is the entry.
C5_Witness ==
    /\ rstate = "resolved"
    /\ Len(kwargs) = 2
    /\ \E n \in FieldNames : n \notin DOMAIN values
    /\ \E i, j \in SuppliedParams :
          /\ i < j /\ Owner(i) = Owner(j)
          /\ bag[filter_model[i].fname] = "18"
          /\ bag[filter_model[j].fname] = "0"
          /\ values[Owner(j)[1]][Owner(j)[2]] = "0"

(***************************************************************************)
(* sorters.py: create_sorting and its resolver                             *)
(***************************************************************************)
\* the token of a field and a direction marker, as query text
SortToken(sign, f) == <<sign, f>>

\* A faulty variant: only the ascending token of a field is defined.
SortDefs_ascending_only(fields) ==
    [t \in {SortToken("+", f) : f \in Range(fields)} |-> <<t[2], "asc", None>>]

\* the definition index of create_sorting(*fields)
SortDefs(fields) ==
    [t \in {SortToken(sg, f) : sg \in {"+", "-"}, f \in Range(fields)} |->
        <<t[2], IF t[1] = "+" THEN "asc" ELSE "desc", None>>]

\* A faulty variant: the default is never checked.
DefaultRejected_never(fields, default) == FALSE

\* an explicit default that is no declared field is rejected
DefaultRejected(fields, default) == default # None /\ default \notin Range(fields)

DefaultError(fields, default) ==
    [type |-> "ValueError",
     message |-> "Default sort field " \o default \o " is not in ",
     fields |-> fields]

\* create_sorting(*fields, default=default)
create_sorting ==
    /\ sstate = "declared"
    /\ IF DefaultRejected(sortFields, sortDefault)
       THEN /\ sstate' = "failed"
            /\ sortError' = DefaultError(sortFields, sortDefault)
            /\ UNCHANGED sortDefs
       ELSE /\ sstate' = "compiled"
            /\ sortDefs' = SortDefs(sortFields)
            /\ UNCHANGED sortError
    /\ UNCHANGED <<sortFields, sortDefault, sortReqVars, notSort>>

\* The caller's tokens ts as "sort" parameters: the tokens between two cuts
\* are sent comma-joined in one parameter.
RECURSIVE EncodeSort(_, _)
EncodeSort(ts, cuts) ==
    IF ts = <<>> THEN <<>>
    ELSE LET cut == IF cuts = {} THEN Len(ts) ELSE Min(cuts)
         IN  <<Join(SubSeq(ts, 1, cut))>>
             \o EncodeSort(SubSeq(ts, cut + 1, Len(ts)),
                           {c - cut : c \in cuts \ {cut}})

\* A request with the tokens ts; without tokens it has no "sort" parameter.
SendSort(ts, cuts) ==
    /\ sstate = "compiled"
    /\ sphase = "none"
    /\ ts = <<>> => sortDefault = None
    /\ sortSent' = ts
    /\ sortQuery' = EncodeSort(ts, cuts)
    /\ sphase' = "sent"
    /\ UNCHANGED <<sortDeclVars, sortTokens, sortValues, notSort>>

\* The binding layer: the values of "sort" are collected into a list and
\* validated as CSVList[Literal[tokens]]; a missing parameter is None.
BindSort ==
    /\ sphase = "sent"
    /\ LET v == IF sortQuery = <<>> THEN PyNone
                ELSE csv_list_validator(PyList(MapSeq(PyStr, sortQuery)))
       IN  /\ sortTokens' = v
           /\ sphase' = IF v = PyNone
                           \/ \A i \in 1..Len(v.items) :
                                 /\ v.items[i].py = "str"
                                 /\ v.items[i].s \in DOMAIN sortDefs
                        THEN "bound" ELSE "rejected"
    /\ UNCHANGED <<sortDeclVars, sortSent, sortQuery, sortValues, notSort>>

\* the resolver: every token is looked up in the definition index
ResolveSort ==
    /\ sphase = "bound"
    /\ sortValues' = IF sortTokens = PyNone THEN <<>>
                     ELSE [i \in 1..Len(sortTokens.items) |->
                              sortDefs[sortTokens.items[i].s]]
    /\ sphase' = "resolved"
    /\ UNCHANGED <<sortDeclVars, sortSent, sortQuery, sortTokens, notSort>>

\* The request ends.
EndSort ==
    /\ sphase \in {"resolved", "rejected"}
    /\ sphase' = "none"
    /\ sortSent' = <<>>
    /\ sortQuery' = <<>>
    /\ sortTokens' = Unset
    /\ sortValues' = <<>>
    /\ UNCHANGED <<sortDeclVars, notSort>>

MaxSortFields == 2
MaxSortTokens == 2

SortNames    == {"name", "age", "created_at"}
SortDefaults == {None, "name", "invalid"}

InitSort ==
    /\ sortFields \in {fs \in BoundedSeq(SortNames, MaxSortFields) :
                         \A i, j \in 1..Len(fs) : i # j => fs[i] # fs[j]}
    /\ sortDefault \in SortDefaults
    /\ sstate = "declared"
    /\ sortError = NoError
    /\ sortDefs = EmptyDict
    /\ sortSent = <<>>
    /\ sortQuery = <<>>
    /\ sphase = "none"
    /\ sortTokens = Unset
    /\ sortValues = <<>>
    /\ OnlySort

NextSort ==
    \/ create_sorting
    \/ \E ts \in BoundedSeq(DOMAIN sortDefs, MaxSortTokens) :
          \E cuts \in SUBSET (1..(Len(ts) - 1)) : SendSort(ts, cuts)
    \/ BindSort
    \/ ResolveSort
    \/ EndSort

SpecSort == InitSort /\ [][NextSort]_vars

C8_InvalidDefaultRejected ==
    sstate # "declared" =>
        /\ (sortDefault # None /\ sortDefault \notin Range(sortFields))
              <=> sstate = "failed"
        /\ sstate = "failed" =>
              /\ sortError.type = "ValueError"
              /\ sortError.message = "Default sort field " \o sortDefault \o " is not in "
              /\ sortDefs = EmptyDict
        /\ sstate = "compiled" => sortError = NoError

\* create_sorting("name", "age", default="invalid") was rejected.
C8_Witness ==
    /\ sstate = "failed"
    /\ sortFields = <<"name", "age">>
    /\ sortDefault = "invalid"
    /\ sortError.message = "Default sort field invalid is not in "

\* C10: the definition index holds, for every declared field f, "+f" as
\* (f, asc, None) and "-f" as (f, desc, None), and nothing else.
C10_TwoEntriesPerField ==
    sstate = "compiled" =>
        /\ Cardinality(DOMAIN sortDefs) = 2 * Cardinality(Range(sortFields))
        /\ \A f \in Range(sortFields) :
              /\ <<"+", f>> \in DOMAIN sortDefs /\ sortDefs[<<"+", f>>] = <<f, "asc", None>>
              /\ <<"-", f>> \in DOMAIN sortDefs /\ sortDefs[<<"-", f>>] = <<f, "desc", None>>
        /\ \A t \in DOMAIN sortDefs : t[2] \in Range(sortFields)

\* create_sorting("name", "age") was compiled.
C10_Witness ==
    /\ sstate = "compiled"
    /\ sortFields = <<"name", "age">>
    /\ Cardinality(DOMAIN sortDefs) = 4

(***************************************************************************)
(* filters.py: create_filters_from_model                                   *)
(***************************************************************************)
\* fields_include_exclude(model.model_fields, include, exclude)(name): a
\* field passes when it is not excluded and, if an include set was given,
\* is included.
fields_include_exclude(inc, exc, name) ==
    /\ inc.given => name \in inc.names
    /\ ~(exc.given /\ name \in exc.names)

\* _get_type: the annotation, wrapped with its metadata when it has any
_get_type(f) ==
    IF f.metadata # <<>> THEN <<"Annotated">> \o f.annotation ELSE f.annotation

\* FilterField(f_def): create_filters wraps a bare type into a field
\* definition of that type with nothing else set.
FilterField(f_def) ==
    [type |-> f_def, default_op |-> "eq", operators |-> <<>>,
     alias |-> None, op_types |-> EmptyDict]

\* {name: _get_type(field) for name, field in model.model_fields.items()
\*  if checker(name)}
RECURSIVE Derived(_, _, _)
Derived(fields, inc, exc) ==
    IF fields = <<>> THEN <<>>
    ELSE (IF fields_include_exclude(inc, exc, Head(fields).name)
          THEN <<[name  |-> Head(fields).name,
                  field |-> FilterField(_get_type(Head(fields)))]>>
          ELSE <<>>)
         \o Derived(Tail(fields), inc, exc)

\* d[name] = field on an ordered dict: an existing key keeps its place
DictSet(d, name, field) ==
    IF \E i \in 1..Len(d) : d[i].name = name
    THEN [i \in 1..Len(d) |->
            IF d[i].name = name THEN [name |-> name, field |-> field] ELSE d[i]]
    ELSE Append(d, [name |-> name, field |-> field])

\* A faulty variant: the entries of a win over those of b.
RECURSIVE DictMerge_first_wins(_, _)
DictMerge_first_wins(a, b) ==
    IF b = <<>> THEN a
    ELSE DictMerge_first_wins(
            IF \E i \in 1..Len(a) : a[i].name = Head(b).name
            THEN a ELSE DictSet(a, Head(b).name, Head(b).field),
            Tail(b))

\* {**a, **b}
RECURSIVE DictMerge(_, _)
DictMerge(a, b) ==
    IF b = <<>> THEN a
    ELSE DictMerge(DictSet(a, Head(b).name, Head(b).field), Tail(b))

\* create_filters_from_model(model, include=, exclude=, **overrides): it
\* returns what create_filters returns for the merged definitions.
create_filters_from_model ==
    /\ fstate = "declared"
    /\ LET kw == DictMerge(Derived(model_fields, include, exclude), overrides)
           fields_defs == FieldsDefs(kw)
       IN  /\ kwargs' = kw
           /\ IF Duplicated(fields_defs)
              THEN /\ fstate' = "failed"
                   /\ UNCHANGED <<defs, filter_model>>
              ELSE /\ fstate' = "compiled"
                   /\ defs' = Defs(fields_defs)
                   /\ filter_model' = FilterModel(fields_defs)
    /\ UNCHANGED <<schemaVars, requestVars, notFilter>>

MaxSchemaFields    == 2
MaxModelOverrides  == 2

SchemaNames   == {"a", "b"}
OverrideNames == {"a", "b", "c"}

SchemaFieldInfos == [annotation : {TInt}, metadata : {<<>>, <<"Gt">>}]

ModelOverrideFields ==
    FilterFields({TStr}, {"eq"}, {"gt"}, {None}, {EmptyDict})

DistinctSeqs(S, n) ==
    {ns \in BoundedSeq(S, n) : \A i, j \in 1..Len(ns) : i # j => ns[i] # ns[j]}

NameSets == {NotGiven} \cup [given : {TRUE}, names : SUBSET SchemaNames]

InitModel ==
    /\ \E ns \in DistinctSeqs(SchemaNames, MaxSchemaFields) :
       \E fs \in [1..Len(ns) -> SchemaFieldInfos] :
          model_fields = [i \in 1..Len(ns) |->
                            [name |-> ns[i], annotation |-> fs[i].annotation,
                             metadata |-> fs[i].metadata]]
    /\ include \in NameSets
    /\ exclude \in NameSets
    /\ \E ns \in DistinctSeqs(OverrideNames, MaxModelOverrides) :
       \E fs \in [1..Len(ns) -> ModelOverrideFields] :
          overrides = Kwargs(ns, fs)
    /\ kwargs = <<>>
    /\ fstate = "declared"
    /\ defs = EmptyDict
    /\ filter_model = <<>>
    /\ query = EmptyDict
    /\ bag = EmptyDict
    /\ rstate = "none"
    /\ values = EmptyDict
    /\ OnlyFilter

NextModel == create_filters_from_model

SpecModel == InitModel /\ [][NextModel]_vars

\* The schema fields that the include/exclude arguments keep.
KeptFields ==
    {i \in 1..Len(model_fields) :
        /\ ~(exclude.given /\ model_fields[i].name \in exclude.names)
        /\ (include.given => model_fields[i].name \in include.names)}

NamesOf(d) == {d[i].name : i \in 1..Len(d)}

\* C11: create_filters_from_model derives a field for a schema field iff it
\* is not excluded and, when an include set is given, is included; an
\* override named like a derived field replaces its definition and any
\* other override adds a field, so that the compiled fields are exactly the
\* kept schema fields together with the override names.
C11_KeptUnionOverrides ==
    fstate = "compiled" =>
        /\ NamesOf(kwargs) =
              {model_fields[i].name : i \in KeptFields} \cup NamesOf(overrides)
        /\ \A j, k \in 1..Len(kwargs) : j # k => kwargs[j].name # kwargs[k].name
        /\ \A k \in 1..Len(kwargs) :
              \/ \E o \in 1..Len(overrides) : overrides[o] = kwargs[k]
              \/ /\ kwargs[k].name \notin NamesOf(overrides)
                 /\ \E i \in KeptFields :
                       /\ model_fields[i].name = kwargs[k].name
                       /\ kwargs[k].field = FilterField(_get_type(model_fields[i]))
        /\ \A i \in 1..Len(model_fields) :
              (\E k \in 1..Len(kwargs) :
                  /\ kwargs[k].name = model_fields[i].name
                  /\ kwargs[k].name \notin NamesOf(overrides))
              <=> (i \in KeptFields /\ model_fields[i].name \notin NamesOf(overrides))

\* A schema of two fields compiled with an include set that drops one of
\* them, one override replacing the kept field and one override naming the
\* dropped field.
C11_Witness ==
    /\ fstate = "compiled"
    /\ Len(model_fields) = 2
    /\ include.given
    /\ Cardinality(KeptFields) = 1
    /\ Len(overrides) = 2
    /\ NamesOf(overrides) = NamesOf(model_fields)
    /\ Len(kwargs) = 2
    /\ \E i \in KeptFields : \E k \in 1..Len(kwargs) :
          /\ kwargs[k].name = model_fields[i].name
          /\ kwargs[k].field # FilterField(_get_type(model_fields[i]))

(***************************************************************************)
(* filters.py: the non-exploded marker of the generated parameters         *)
(***************************************************************************)
MarkerOverrides ==
    UNION {[ops -> {TInt, CSVList(TStr)}] :
             ops \in {o \in SUBSET {"eq", "in_"} : Cardinality(o) <= MaxOverrides}}

MarkerFields ==
    FilterFields({TInt, TList(TInt)}, {"eq"}, {"in_", "gt"}, {None},
                 MarkerOverrides)

InitMarker ==
    /\ \E ns \in KwargNames : \E fs \in [1..Len(ns) -> MarkerFields] :
          kwargs = Kwargs(ns, fs)
    /\ fstate = "declared"
    /\ defs = EmptyDict
    /\ filter_model = <<>>
    /\ query = EmptyDict
    /\ bag = EmptyDict
    /\ rstate = "none"
    /\ values = EmptyDict
    /\ IdleSchema
    /\ OnlyFilter

NextMarker == create_filters

SpecMarker == InitMarker /\ [][NextMarker]_vars

\* C12: in a compiled parameter bag, a generated parameter carries
\* explode=False exactly when its adapted type (adapt_type's result, after
\* the per-operator overrides) is a list encoding.
C12_MarkerIffListEncoded ==
    fstate = "compiled" =>
        \A i \in 1..Len(filter_model) :
            (filter_model[i].param.explode = "False")
            <=> _is_csv_list_type(filter_model[i].type)

====
